---- MODULE Spec2Model ----
(***************************************************************************)
(* Model of the record-stream driver of DBN.jl as emitted by               *)
(* src/refactor.py: read_record, read_record_dispatch and                  *)
(* read_instrument_def_msg, over a byte source `data` with a cursor `pos`. *)
(* A stream may be re-opened from the beginning of the same bytes, as the  *)
(* repeated runs of src/benchmark/compare_python.py do; `earlier` keeps    *)
(* the outcomes of the run before the current one.                         *)
(* The header parser (read_record_header) and the bodies of the per-kind   *)
(* decoders live in src/decode.jl, which is not part of the sources at     *)
(* hand; they are modelled from the specification (sections 4.1, 4.2, 4.4) *)
(* and from the contract visible at their call sites.                      *)
(***************************************************************************)
EXTENDS Integers, Sequences, FiniteSets, TLC

VARIABLES data, pos, outs, earlier

vars == <<data, pos, outs, earlier>>

(* ------------------------------ bounds --------------------------------- *)
\* most records in one byte source
MaxRecords == 2
\* most calls of read_record made on one stream
MaxCalls == 4

(* ------------------------- protocol constants -------------------------- *)
\* "body_size = record_size_bytes - 16", "skip(decoder.io, hd.length - 16)"
HEADER_SIZE == 16
\* "record_size_bytes = hd.length * LENGTH_MULTIPLIER"
LENGTH_MULTIPLIER == 4
\* "skip(decoder.io, record_length - 2)": bytes the header parser has
\* consumed when it reports an unknown tag (length byte and tag byte)
TAG_PREFIX == 2
\* "if body_size == 384"
V2_BODY_SIZE == 384
\* body size of the newer instrument-definition layout
V3_BODY_SIZE == 504

(* --------------------------- the kind tags ----------------------------- *)
\* RType.T(rtype_raw): the enum member of a raw tag byte, "UNKNOWN" when the
\* conversion fails and the header parser reports the tag as a tuple
RTypeOf(b) ==
    CASE b = 0   -> "MBP_0_MSG"
      [] b = 1   -> "MBP_1_MSG"
      [] b = 10  -> "MBP_10_MSG"
      [] b = 17  -> "OHLCV_DEPRECATED_MSG"
      [] b = 18  -> "STATUS_MSG"
      [] b = 19  -> "INSTRUMENT_DEF_MSG"
      [] b = 20  -> "IMBALANCE_MSG"
      [] b = 21  -> "ERROR_MSG"
      [] b = 22  -> "SYMBOL_MAPPING_MSG"
      [] b = 23  -> "SYSTEM_MSG"
      [] b = 24  -> "STAT_MSG"
      [] b = 32  -> "OHLCV_1S_MSG"
      [] b = 33  -> "OHLCV_1M_MSG"
      [] b = 34  -> "OHLCV_1H_MSG"
      [] b = 35  -> "OHLCV_1D_MSG"
      [] b = 36  -> "OHLCV_EOD_MSG"
      [] b = 160 -> "MBO_MSG"
      [] b = 177 -> "CMBP_1_MSG"
      [] b = 192 -> "CBBO_1S_MSG"
      [] b = 193 -> "CBBO_1M_MSG"
      [] b = 194 -> "TCBBO_MSG"
      [] b = 195 -> "BBO_1S_MSG"
      [] b = 196 -> "BBO_1M_MSG"
      [] OTHER   -> "UNKNOWN"

\* the handlers extracted from the original function: marker -> helper name
\* (the four bar granularities share the marker "hd.rtype in [RType.OHLCV";
\* the instrument-definition block is handled separately)
handlers ==
    [ MBO_MSG            |-> "read_mbo_msg",
      MBP_0_MSG          |-> "read_trade_msg",
      MBP_1_MSG          |-> "read_mbp1_msg",
      MBP_10_MSG         |-> "read_mbp10_msg",
      OHLCV_1S_MSG       |-> "read_ohlcv_msg",
      OHLCV_1M_MSG       |-> "read_ohlcv_msg",
      OHLCV_1H_MSG       |-> "read_ohlcv_msg",
      OHLCV_1D_MSG       |-> "read_ohlcv_msg",
      STATUS_MSG         |-> "read_status_msg",
      INSTRUMENT_DEF_MSG |-> "read_instrument_def_msg",
      IMBALANCE_MSG      |-> "read_imbalance_msg",
      STAT_MSG           |-> "read_stat_msg",
      ERROR_MSG          |-> "read_error_msg",
      SYMBOL_MAPPING_MSG |-> "read_symbol_mapping_msg",
      SYSTEM_MSG         |-> "read_system_msg",
      CMBP_1_MSG         |-> "read_cmbp1_msg",
      CBBO_1S_MSG        |-> "read_cbbo1s_msg",
      CBBO_1M_MSG        |-> "read_cbbo1m_msg",
      TCBBO_MSG          |-> "read_tcbbo_msg",
      BBO_1S_MSG         |-> "read_bbo1s_msg",
      BBO_1M_MSG         |-> "read_bbo1m_msg" ]

\* the closed table of known kinds
KnownKinds == DOMAIN handlers

\* the branch chain of read_record_dispatch with one branch mistaken
read_record_dispatch_swapped(rtype) ==
    IF rtype = "MBO_MSG" THEN "read_mbo_msg"
    ELSE IF rtype = "MBP_0_MSG" THEN "read_trade_msg"
    ELSE IF rtype = "MBP_1_MSG" THEN "read_mbp10_msg"
    ELSE IF rtype = "MBP_10_MSG" THEN "read_mbp10_msg"
    ELSE IF rtype \in {"OHLCV_1S_MSG", "OHLCV_1M_MSG", "OHLCV_1H_MSG"}
         THEN "read_ohlcv_msg"
    ELSE IF rtype \in KnownKinds THEN handlers[rtype]
    ELSE "skip"

\* the branch chain of read_record_dispatch: the helper a kind is handed to,
\* "skip" for the final else branch
read_record_dispatch_target(rtype) ==
    IF rtype = "MBO_MSG" THEN "read_mbo_msg"
    ELSE IF rtype = "MBP_0_MSG" THEN "read_trade_msg"
    ELSE IF rtype = "MBP_1_MSG" THEN "read_mbp1_msg"
    ELSE IF rtype = "MBP_10_MSG" THEN "read_mbp10_msg"
    ELSE IF rtype \in {"OHLCV_1S_MSG", "OHLCV_1M_MSG", "OHLCV_1H_MSG", "OHLCV_1D_MSG"}
         THEN "read_ohlcv_msg"
    ELSE IF rtype = "STATUS_MSG" THEN "read_status_msg"
    ELSE IF rtype = "INSTRUMENT_DEF_MSG" THEN "read_instrument_def_msg"
    ELSE IF rtype = "IMBALANCE_MSG" THEN "read_imbalance_msg"
    ELSE IF rtype = "STAT_MSG" THEN "read_stat_msg"
    ELSE IF rtype = "ERROR_MSG" THEN "read_error_msg"
    ELSE IF rtype = "SYMBOL_MAPPING_MSG" THEN "read_symbol_mapping_msg"
    ELSE IF rtype = "SYSTEM_MSG" THEN "read_system_msg"
    ELSE IF rtype = "CMBP_1_MSG" THEN "read_cmbp1_msg"
    ELSE IF rtype = "CBBO_1S_MSG" THEN "read_cbbo1s_msg"
    ELSE IF rtype = "CBBO_1M_MSG" THEN "read_cbbo1m_msg"
    ELSE IF rtype = "TCBBO_MSG" THEN "read_tcbbo_msg"
    ELSE IF rtype = "BBO_1S_MSG" THEN "read_bbo1s_msg"
    ELSE IF rtype = "BBO_1M_MSG" THEN "read_bbo1m_msg"
    ELSE "skip"

\* the layout resolver with a range match in place of the exact match
read_instrument_def_msg_range(length) ==
    LET record_size_bytes == length * LENGTH_MULTIPLIER
        body_size == record_size_bytes - 16
    IN  IF body_size >= 384 THEN "read_instrument_def_v2"
        ELSE "read_instrument_def_v3"

\* read_instrument_def_msg: the version-specific decoder chosen for hd.length
read_instrument_def_msg(length) ==
    LET record_size_bytes == length * LENGTH_MULTIPLIER
        body_size == record_size_bytes - 16
    IN  IF body_size = 384 THEN "read_instrument_def_v2"
        ELSE "read_instrument_def_v3"

\* the decoder that finally reads the body of a record of a dispatched kind
DecoderFor(target, length) ==
    IF target = "read_instrument_def_msg" THEN read_instrument_def_msg(length)
    ELSE target

\* bytes of body each decoder reads: the fixed physical layout of its kind
LayoutSize(decoder) ==
    CASE decoder = "read_mbo_msg"            -> 40
      [] decoder = "read_trade_msg"          -> 32
      [] decoder = "read_mbp1_msg"           -> 64
      [] decoder = "read_mbp10_msg"          -> 352
      [] decoder = "read_ohlcv_msg"          -> 40
      [] decoder = "read_status_msg"         -> 24
      [] decoder = "read_instrument_def_v2"  -> V2_BODY_SIZE
      [] decoder = "read_instrument_def_v3"  -> V3_BODY_SIZE
      [] decoder = "read_imbalance_msg"      -> 96
      [] decoder = "read_stat_msg"           -> 48
      [] decoder = "read_error_msg"          -> 304
      [] decoder = "read_symbol_mapping_msg" -> 160
      [] decoder = "read_system_msg"         -> 304
      [] decoder = "read_cmbp1_msg"          -> 64
      [] decoder = "read_cbbo1s_msg"         -> 64
      [] decoder = "read_cbbo1m_msg"         -> 64
      [] decoder = "read_tcbbo_msg"          -> 64
      [] decoder = "read_bbo1s_msg"          -> 64
      [] decoder = "read_bbo1m_msg"          -> 64

\* the Record variant each decoder's return statement constructs
VariantOf(decoder) ==
    CASE decoder = "read_mbo_msg"            -> "MBOMsg"
      [] decoder = "read_trade_msg"          -> "TradeMsg"
      [] decoder = "read_mbp1_msg"           -> "MBP1Msg"
      [] decoder = "read_mbp10_msg"          -> "MBP10Msg"
      [] decoder = "read_ohlcv_msg"          -> "OHLCVMsg"
      [] decoder = "read_status_msg"         -> "StatusMsg"
      [] decoder = "read_instrument_def_v2"  -> "InstrumentDefMsg"
      [] decoder = "read_instrument_def_v3"  -> "InstrumentDefMsg"
      [] decoder = "read_imbalance_msg"      -> "ImbalanceMsg"
      [] decoder = "read_stat_msg"           -> "StatMsg"
      [] decoder = "read_error_msg"          -> "ErrorMsg"
      [] decoder = "read_symbol_mapping_msg" -> "SymbolMappingMsg"
      [] decoder = "read_system_msg"         -> "SystemMsg"
      [] decoder = "read_cmbp1_msg"          -> "CMBP1Msg"
      [] decoder = "read_cbbo1s_msg"         -> "CBBO1sMsg"
      [] decoder = "read_cbbo1m_msg"         -> "CBBO1mMsg"
      [] decoder = "read_tcbbo_msg"          -> "TCBBOMsg"
      [] decoder = "read_bbo1s_msg"          -> "BBO1sMsg"
      [] decoder = "read_bbo1m_msg"          -> "BBO1mMsg"

(* --------------------------- the byte source --------------------------- *)
\* A byte source is a run of records, each a 16-byte header (byte 0 the
\* length in words, byte 1 the kind tag) followed by its body, possibly cut
\* short inside the last record.  Bytes other than the length and tag bytes
\* are zero.  data = [recs, size]: the records laid out and the byte count.

Max(a, b) == IF a >= b THEN a ELSE b
Min(a, b) == IF a <= b THEN a ELSE b

\* bytes a laid-out record occupies: its declared length, at least a header
PhysSize(d) == Max(HEADER_SIZE, d.len * LENGTH_MULTIPLIER)

RECURSIVE Offset(_, _)
\* offset of the i-th record of recs in the byte source
Offset(recs, i) == IF i = 1 THEN 0 ELSE Offset(recs, i - 1) + PhysSize(recs[i - 1])

\* the byte at offset p of the source (p < data.size)
ByteAt(p) ==
    LET recs == data.recs
        atLen == {i \in 1..Len(recs) : Offset(recs, i) = p}
        atTag == {i \in 1..Len(recs) : Offset(recs, i) + 1 = p}
    IN  IF atLen # {} THEN recs[CHOOSE i \in atLen : TRUE].len
        ELSE IF atTag # {} THEN recs[CHOOSE i \in atTag : TRUE].kind
        ELSE 0

\* the records a byte source is drawn from: every kind of the enum at its
\* own layout's length, and headers whose length disagrees with the layout
Descs ==
    {  [kind |-> 160, len |-> 14], [kind |-> 0,   len |-> 12],
       [kind |-> 1,   len |-> 20], [kind |-> 10,  len |-> 92],
       [kind |-> 32,  len |-> 14], [kind |-> 33,  len |-> 14],
       [kind |-> 34,  len |-> 14], [kind |-> 35,  len |-> 14],
       [kind |-> 18,  len |-> 10], [kind |-> 19,  len |-> 100],
       [kind |-> 19,  len |-> 130], [kind |-> 20, len |-> 28],
       [kind |-> 24,  len |-> 16], [kind |-> 21,  len |-> 80],
       [kind |-> 22,  len |-> 44], [kind |-> 23,  len |-> 80],
       [kind |-> 177, len |-> 20], [kind |-> 192, len |-> 20],
       [kind |-> 193, len |-> 20], [kind |-> 194, len |-> 20],
       [kind |-> 195, len |-> 20], [kind |-> 196, len |-> 20] }
    \cup
    {  [kind |-> 17,  len |-> 14], [kind |-> 36,  len |-> 30],
       [kind |-> 17,  len |-> 0],
       [kind |-> 255, len |-> 14], [kind |-> 255, len |-> 4],
       [kind |-> 255, len |-> 0],  [kind |-> 200, len |-> 3],
       [kind |-> 0,   len |-> 14], [kind |-> 0,   len |-> 4],
       [kind |-> 0,   len |-> 1],  [kind |-> 19,  len |-> 14] }

\* how many bytes of the last record are present: one byte, a header less
\* one byte, the header alone, or all of it (no record exceeds 255 words)
Cuts == {1, HEADER_SIZE - 1, HEADER_SIZE, 255 * LENGTH_MULTIPLIER}

RecSeqs == UNION {[1..n -> Descs] : n \in 0..MaxRecords}

SizeOf(recs, cut) ==
    IF Len(recs) = 0 THEN 0
    ELSE Offset(recs, Len(recs))
         + Min(cut, PhysSize(recs[Len(recs)]))

(* ------------------------------ ByteCursor ----------------------------- *)
\* eof(decoder.io)
eof_short(p) == data.size - p < HEADER_SIZE

eof(p) == p >= data.size

remaining(p) == data.size - p

\* skip(decoder.io, n): moves the cursor by n, forwards or backwards, and
\* stops at either end of the source
skip(p, n) == Max(0, Min(data.size, p + n))

(* ------------------------------ outcomes ------------------------------- *)
\* What one call of read_record did.  ret/variant/err are what the caller
\* sees (the value returned or the exception raised); the other fields
\* record the call: the branch taken, the cursor before the call, after the
\* header and after the call, the header's length and tag, and the decoder
\* that was invoked.
Outcome(path, ret, variant, err, start, body_start, end, length, tag, decoder) ==
    [path |-> path, ret |-> ret, variant |-> variant, err |-> err,
     start |-> start, body_start |-> body_start, end |-> end,
     length |-> length, tag |-> tag, decoder |-> decoder]

\* read_record_header(io): fails when fewer bytes than a header remain;
\* reports a tag outside the enum as a tuple (nothing, rtype_raw,
\* record_length in bytes) after the length and tag bytes; else reads the
\* whole header
read_record_header(p) ==
    IF remaining(p) < HEADER_SIZE
    THEN [is |-> "error", pos |-> p, length |-> -1, rtype_raw |-> -1,
          record_length |-> -1]
    ELSE LET record_length_units == ByteAt(p)
             rtype_raw == ByteAt(p + 1)
         IN  IF RTypeOf(rtype_raw) = "UNKNOWN"
             THEN [is |-> "tuple", pos |-> p + TAG_PREFIX,
                   length |-> record_length_units, rtype_raw |-> rtype_raw,
                   record_length |-> record_length_units * LENGTH_MULTIPLIER]
             ELSE [is |-> "header", pos |-> p + HEADER_SIZE,
                   length |-> record_length_units, rtype_raw |-> rtype_raw,
                   record_length |-> record_length_units * LENGTH_MULTIPLIER]

\* a per-kind decoder called with the cursor at p: reads its fixed layout,
\* failing with TruncatedInput (cursor unmoved) when fewer bytes remain
decode(decoder, p) ==
    IF remaining(p) < LayoutSize(decoder)
    THEN [ret |-> "error", variant |-> "none", err |-> "TruncatedInput", pos |-> p]
    ELSE [ret |-> "record", variant |-> VariantOf(decoder), err |-> "none",
          pos |-> p + LayoutSize(decoder)]

\* read_record_dispatch(decoder, hd, hd.rtype), called at cursor start with
\* the header hd already read
read_record_dispatch(start, hd) ==
    LET target == read_record_dispatch_target(RTypeOf(hd.rtype_raw))
    IN  IF target = "skip"
        THEN Outcome("skip_dispatch", "nothing", "none", "none", start, hd.pos,
                     skip(hd.pos, hd.length - 16), hd.length, hd.rtype_raw, "none")
        ELSE LET dec == DecoderFor(target, hd.length)
                 r == decode(dec, hd.pos)
             IN  Outcome(IF r.ret = "record" THEN "decoded" ELSE "decode_error",
                         r.ret, r.variant, r.err, start, hd.pos, r.pos,
                         hd.length, hd.rtype_raw, dec)

\* read_record(decoder) called with the cursor at p
read_record(p) ==
    IF eof(p)
    THEN Outcome("eof", "nothing", "none", "none", p, -1, p, -1, -1, "none")
    ELSE LET hd_result == read_record_header(p)
         IN  IF hd_result.is = "error"
             THEN Outcome("header_error", "error", "none", "TruncatedInput",
                          p, -1, hd_result.pos, -1, -1, "none")
             ELSE IF hd_result.is = "tuple"
             THEN Outcome("skip_header", "nothing", "none", "none", p,
                          p + HEADER_SIZE,
                          skip(hd_result.pos, hd_result.record_length - 2),
                          hd_result.length, hd_result.rtype_raw, "none")
             ELSE read_record_dispatch(p, hd_result)

(* --------------------------- the state machine ------------------------- *)
Init ==
    /\ \E recs \in RecSeqs : \E cut \in Cuts :
          data = [recs |-> recs, size |-> SizeOf(recs, cut)]
    /\ pos = 0
    /\ outs = <<>>
    /\ earlier = <<>>

\* the cursor and the record of outcomes after a call with outcome o
Returns(o) ==
    /\ pos' = o.end
    /\ outs' = Append(outs, o)
    /\ earlier' = earlier

\* read_record returns nothing at the end of the source
ReadAtEof ==
    /\ Len(outs) < MaxCalls
    /\ read_record(pos).path = "eof"
    /\ Returns(read_record(pos))
    /\ UNCHANGED data

\* read_record raises out of the header parser
ReadTruncatedHeader ==
    /\ Len(outs) < MaxCalls
    /\ read_record(pos).path = "header_error"
    /\ Returns(read_record(pos))
    /\ UNCHANGED data

\* read_record skips a record whose tag the header parser does not know
ReadUnknownTag ==
    /\ Len(outs) < MaxCalls
    /\ read_record(pos).path = "skip_header"
    /\ Returns(read_record(pos))
    /\ UNCHANGED data

\* read_record_dispatch skips a record in its final else branch
ReadDispatchSkip ==
    /\ Len(outs) < MaxCalls
    /\ read_record(pos).path = "skip_dispatch"
    /\ Returns(read_record(pos))
    /\ UNCHANGED data

\* read_record returns the record a per-kind decoder produced
ReadDecoded ==
    /\ Len(outs) < MaxCalls
    /\ read_record(pos).path = "decoded"
    /\ Returns(read_record(pos))
    /\ UNCHANGED data

\* read_record raises out of a per-kind decoder
ReadDecodeFailed ==
    /\ Len(outs) < MaxCalls
    /\ read_record(pos).path = "decode_error"
    /\ Returns(read_record(pos))
    /\ UNCHANGED data

\* the cursor of a stream that keeps the position the run before it reached
stale_position == pos

\* DBNStore.from_file(filepath): the cursor of a freshly opened stream is at
\* the beginning of the byte source
open_position == 0

\* a run is over once it has made all its calls; the next run opens a new
\* stream on the same bytes and the finished run's outcomes are kept
Reopen ==
    /\ Len(outs) = MaxCalls
    /\ earlier' = outs
    /\ pos' = open_position
    /\ outs' = <<>>
    /\ UNCHANGED data

Next ==
    \/ ReadAtEof
    \/ ReadTruncatedHeader
    \/ ReadUnknownTag
    \/ ReadDispatchSkip
    \/ ReadDecoded
    \/ ReadDecodeFailed

Spec == Init /\ [][Next]_vars

\* the records the byte source of repeated runs is drawn from: one record
\* for each branch of read_record and read_record_dispatch
RunDescs ==
    {  [kind |-> 0,   len |-> 12],  [kind |-> 0,   len |-> 14],
       [kind |-> 1,   len |-> 20],  [kind |-> 32,  len |-> 14],
       [kind |-> 19,  len |-> 100], [kind |-> 19,  len |-> 14],
       [kind |-> 17,  len |-> 14],  [kind |-> 17,  len |-> 0],
       [kind |-> 255, len |-> 14],  [kind |-> 255, len |-> 0] }

RunRecSeqs == UNION {[1..n -> RunDescs] : n \in 0..MaxRecords}

\* the first run of the benchmark: a stream opened on some byte source
InitRuns ==
    /\ \E recs \in RunRecSeqs : \E cut \in Cuts :
          data = [recs |-> recs, size |-> SizeOf(recs, cut)]
    /\ pos = 0
    /\ outs = <<>>
    /\ earlier = <<>>

\* run after run over the same bytes, each made of calls of read_record
NextRuns ==
    \/ Reopen
    \/ ReadAtEof
    \/ ReadTruncatedHeader
    \/ ReadUnknownTag
    \/ ReadDispatchSkip
    \/ ReadDecoded
    \/ ReadDecodeFailed

SpecRuns == InitRuns /\ [][NextRuns]_vars

(* ---------------------- reading the outcomes --------------------------- *)
Calls == 1..Len(outs)

\* body_length = header.length * WORD_SIZE - HEADER_SIZE
BodyLength(o) == o.length * LENGTH_MULTIPLIER - HEADER_SIZE

\* the state of the stream after a call: Exhausted after a clean end,
\* Failed after an error, Ready after a record or a skip
StateAfter(o) ==
    IF o.path = "eof" THEN "Exhausted"
    ELSE IF o.ret = "error" THEN "Failed"
    ELSE "Ready"

\* what the caller of read_record can observe of an outcome
Seen(o) == [ret |-> o.ret, variant |-> o.variant, err |-> o.err]

TypeOK ==
    /\ pos \in 0..data.size
    /\ Len(outs) <= MaxCalls

(* ------------------------------- claims -------------------------------- *)
SkipPaths == {"skip_header", "skip_dispatch"}
HeaderRead == {"skip_header", "skip_dispatch", "decoded", "decode_error"}

\* a header is well-formed when its declared length covers the header and
\* the record it declares lies within the byte source
WellFormed(o) ==
    /\ o.path \in HeaderRead
    /\ BodyLength(o) >= 0
    /\ o.body_start + BodyLength(o) <= data.size

\* C1: every skipped record with a well-formed header leaves the cursor at
\* start_of_body + body_length, on both skip paths (the header parser's
\* unknown tag and the dispatcher's final else branch).
C1_SkipEndsAtNextRecord ==
    \A i \in Calls :
        (outs[i].path \in SkipPaths /\ WellFormed(outs[i]))
            => outs[i].end = outs[i].body_start + BodyLength(outs[i])

C3_UnknownLayoutIsAnError ==
    \A i \in Calls :
        LET o == outs[i]
        IN  ( /\ o.path \in HeaderRead
              /\ RTypeOf(o.tag) = "INSTRUMENT_DEF_MSG"
              /\ BodyLength(o) \notin {V2_BODY_SIZE, V3_BODY_SIZE} )
            => /\ o.err = "UnknownLayoutVersion"
               /\ o.decoder = "none"

\* C4: a record of an unrecognised kind yields an outcome the caller can
\* tell from the end of the stream, leaves the stream Ready, and the stream
\* [trade, unknown kind with body length 40, end] yields Trade, Skipped,
\* then a clean end.
C4_SkippedIsNotEndOfStream ==
    /\ \A i \in Calls :
          (outs[i].path = "skip_header" /\ WellFormed(outs[i]))
              => /\ Seen(outs[i]) # Seen(read_record(data.size))
                 /\ StateAfter(outs[i]) = "Ready"
    /\ ( /\ data.recs = <<[kind |-> 0, len |-> 12], [kind |-> 255, len |-> 14]>>
         /\ data.size = 104
         /\ Len(outs) >= 3 )
       => /\ outs[1].variant = "TradeMsg"
          /\ outs[2].path \in SkipPaths /\ BodyLength(outs[2]) = 40
          /\ outs[2].end = outs[2].body_start + 40
          /\ outs[3].path = "eof"

\* C5: once a call has left the stream Exhausted or Failed, the next call
\* returns the same terminal outcome, produces no record and does not move
\* the cursor.
C5_TerminalStatesAbsorb ==
    \A i \in Calls :
        (i > 1 /\ StateAfter(outs[i - 1]) \in {"Exhausted", "Failed"})
            => /\ Seen(outs[i]) = Seen(outs[i - 1])
               /\ outs[i].ret # "record"
               /\ outs[i].end = outs[i].start

\* C6: a header whose declared length gives a negative body length is
\* rejected: no decoder is invoked and no skip is performed for it.
C6_NegativeBodyLengthRejected ==
    \A i \in Calls :
        LET o == outs[i]
        IN  (o.path \in HeaderRead /\ BodyLength(o) < 0)
            => /\ o.ret = "error"
               /\ o.decoder = "none"
               /\ o.path \notin SkipPaths

\* C7: an instrument-definition body of the legacy length (384) goes to the
\* legacy decoder, one of the newer layout's length goes to the newer
\* decoder, and two records with equal body length go to the same decoder.
C7_LayoutChosenByBodyLength ==
    \A i \in Calls :
        LET o == outs[i]
        IN  (o.path \in HeaderRead /\ RTypeOf(o.tag) = "INSTRUMENT_DEF_MSG")
            => /\ BodyLength(o) = V2_BODY_SIZE => o.decoder = "read_instrument_def_v2"
               /\ BodyLength(o) = V3_BODY_SIZE => o.decoder = "read_instrument_def_v3"
               /\ o.decoder \in {"read_instrument_def_v2", "read_instrument_def_v3"}
               /\ \A j \in Calls :
                     ( /\ RTypeOf(outs[j].tag) = "INSTRUMENT_DEF_MSG"
                       /\ outs[j].path \in HeaderRead
                       /\ BodyLength(outs[j]) = BodyLength(o) )
                     => outs[j].decoder = o.decoder

\* one stream in which a legacy-length and a newer-length instrument
\* definition were both decoded
C7_Witness ==
    \E i, j \in Calls :
        /\ outs[i].path = "decoded" /\ BodyLength(outs[i]) = V2_BODY_SIZE
        /\ outs[i].decoder = "read_instrument_def_v2"
        /\ outs[j].path = "decoded" /\ BodyLength(outs[j]) = V3_BODY_SIZE
        /\ outs[j].decoder = "read_instrument_def_v3"

\* C8: after every successful decode of a known-kind record the cursor is
\* at start_of_body + body_length.
C8_DecodeEndsAtBodyEnd ==
    \A i \in Calls :
        outs[i].path = "decoded"
            => outs[i].end = outs[i].body_start + BodyLength(outs[i])

\* C9: every kind of the closed table is handed to the decoder the handler
\* table names for it (the instrument-definition kind to the layout
\* resolver's choice) and never to the skip branch; every other tag is
\* skipped and reaches no decoder.
C9_DispatchFollowsTable ==
    \A i \in Calls :
        LET o == outs[i]
            rt == RTypeOf(o.tag)
        IN  o.path \in HeaderRead
            => /\ rt \in KnownKinds
                    => /\ o.path \notin SkipPaths
                       /\ rt = "INSTRUMENT_DEF_MSG"
                             => o.decoder \in {"read_instrument_def_v2",
                                               "read_instrument_def_v3"}
                       /\ rt # "INSTRUMENT_DEF_MSG" => o.decoder = handlers[rt]
                       /\ o.path = "decoded" => o.variant = VariantOf(o.decoder)
               /\ rt \notin KnownKinds
                    => /\ o.path \in SkipPaths
                       /\ o.decoder = "none"

\* a depth-1 book record was decoded by its own decoder and a record of a
\* kind outside the table went to the dispatcher's skip branch
C9_Witness ==
    \E i, j \in Calls :
        /\ outs[i].path = "decoded" /\ RTypeOf(outs[i].tag) = "MBP_1_MSG"
        /\ outs[i].decoder = "read_mbp1_msg"
        /\ outs[j].path = "skip_dispatch"

\* C10: every call that returns a record or skips one moves the cursor
\* forward by at least the header size, so the cursor never moves backwards
\* and the calls on a finite source come to an end.
C10_EveryRecordAdvances ==
    \A i \in Calls :
        (outs[i].path = "decoded" \/ outs[i].path \in SkipPaths)
            => outs[i].end >= outs[i].start + HEADER_SIZE

\* the number of records a run has produced (the benchmark's count)
RecordCount(os) == Cardinality({i \in 1..Len(os) : os[i].ret = "record"})

====
